---- MODULE Spec2Model ----
(***************************************************************************)
(* DynamoDBStream (src/index.js): a tracker of the shards of one DynamoDB  *)
(* stream.  The tracker keeps a table shard id -> cursor, discovers the    *)
(* shards (describeStream, paginated), acquires a LATEST iterator for the  *)
(* entries that lack one, fetches one batch per shard, trims the entries    *)
(* whose cursor is null and emits one notification per record.             *)
(*                                                                         *)
(* The DynamoDB Streams service is the environment: a list of shards, one  *)
(* append-only log per shard, and the three requests the tracker issues.   *)
(***************************************************************************)
EXTENDS Integers, Sequences, FiniteSets, TLC

\* ------------------------------------------------------------------ bounds
\* what the service does on its own (a new shard, a record written, a shard
\* closed) or refuses (a request rejected) happens at most MaxEvents times;
\* the calls of the tracker are not bounded
MaxEvents == 4

\* the stream of the runs that take and restore state objects has at most
\* MaxStateShards shards; the service is quiet during these runs, and the
\* caller writes to the state object it holds at most MaxEdits times
MaxStateShards == 2

MaxEdits == 2

\* the table of the runs that watch the fan-out has MaxFanShards entries, more
\* than the fan-out limit; the service is quiet during these runs
MaxFanShards == 12

\* the fan-out limit handed to map(): src/index.js lines 140 and 166
Limit == 10

ShardIds == 1..MaxEvents

\* eventName of a stream record; "UNKNOWN" stands for any other value
Kinds == {"INSERT", "MODIFY", "REMOVE", "UNKNOWN"}

\* ------------------------------------------------------------ JS values
\* every value is a tagged tuple, so that any two values can be compared
Undefined == <<"undefined">>

Null == <<"null">>

\* the iterator token the service hands out: shard s, next position p
Token(s, p) == <<"iterator", s, p>>

IsToken(c) == c[1] = "iterator"

\* JS truthiness of a cursor: `if (shardData.nextShardIterator)`
Truthy(c) == c # Undefined /\ c # Null

\* the i-th record of shard s, of eventName k, as getRecords returns it
Rec(s, i, k) == <<"record", s, i, k>>

\* an array of items (a getRecords batch), as opposed to undefined
Arr(items) == <<"array", items>>

IsArr(v) == v[1] = "array"

\* the other values a caller can pass to the constructor
AString == <<"string", "arn">>

ANumber == <<"number", "1">>

AnObject == <<"object">>

Args == {Undefined, Null, AString, ANumber, AnObject}

\* typeof v, a JS string
TypeOf(v) ==
    CASE v = Undefined -> <<"string", "undefined">>
      [] v = Null -> <<"string", "object">>
      [] OTHER -> <<"string", v[1]>>

\* !v, a JS boolean
Not(v) == <<"boolean", IF Truthy(v) THEN "false" ELSE "true">>

\* a === b: the same type and the same value
StrictEquals(a, b) == a = b

\* no ExclusiveStartShardId / no LastEvaluatedShardId
NoShard == 0

VARIABLES
    \* ---- the service
    stream,        \* the shard ids describeStream lists, in order
    log,           \* log[s]: the number of records written to shard s
    budget,        \* the number of service events and rejected requests so far
    closed,        \* closed[s]: the shard takes no more records
    \* ---- the tracker (src/index.js)
    ddbStreams,    \* this._ddbStreams: the value passed as service client
    streamArn,     \* this._streamArn: the value passed as stream identifier
    unmarshall,    \* this._unmarshall was supplied
    shards,        \* this._shards: a Map in insertion order, as a sequence of entries
    pc,            \* "idle" | "describe" | "iterators" | "records", and "new" |
                   \* "thrown" before and after a constructor call that throws
    call,          \* the public method running: fetchStreamState/Shards/Records
    lastShardId,   \* fetchStreamShards: lastShardId
    newShardIds,   \* fetchStreamShards: newShardIds
    inflight,      \* map(): indexes of the entries whose request has not settled
    issued,        \* map(): number of entries taken from the iterator so far
    results,       \* map(): results[i] of the settled requests
    mapFailed,     \* map(): some request of the fan-out was rejected
    \* ---- what an observer of the tracker has seen
    obs,           \* the last step: its kind, the notifications it emitted, ...
    emitted,       \* the records <<s, i>> emitted as record events so far
    reports,       \* reports[s]: the last two shard reports naming s
    firstDone,     \* a fetchStreamState() call has completed
    lateFrom,      \* lateFrom[s]: log[s] when that call completed
    anyFailed,     \* some call has ended with an error
    nulled,        \* the ids whose cursor became null and that no trim has removed since
    preIds,        \* fetchStreamShards: the ids in the table after the first trim
    listed,        \* fetchStreamShards: the ids returned so far, over all pages
    \* ---- the caller of getShardState / setShardState
    snap,          \* the state object the caller holds: its keys in order, its entries
    shared,        \* the keys of snap whose entry is the very object the table holds
    edits,         \* the number of writes the caller has made to its object
    taken          \* the caller's object was returned by getShardState

svcVars == <<stream, log, closed, budget>>

fanVars == <<inflight, issued, results, mapFailed>>

argVars == <<ddbStreams, streamArn>>

trackerVars == <<argVars, unmarshall, shards, pc, call, lastShardId, newShardIds, fanVars>>

histVars == <<emitted, reports, firstDone, lateFrom, anyFailed, nulled, preIds, listed>>

callerVars == <<snap, shared, edits, taken>>

vars == <<svcVars, trackerVars, obs, histVars, callerVars>>

\* ------------------------------------------------------ generic helpers
Range(f) == {f[i] : i \in DOMAIN f}

\* position of x in sequence q, 0 when absent
IndexOf(q, x) ==
    IF \E i \in 1..Len(q) : q[i] = x
    THEN CHOOSE i \in 1..Len(q) : q[i] = x /\ \A j \in 1..(i - 1) : q[j] # x
    ELSE 0

Ids(tbl) == [i \in 1..Len(tbl) |-> tbl[i].shardId]

\* this._shards.get(id) is defined
Has(tbl, id) == \E i \in 1..Len(tbl) : tbl[i].shardId = id

\* ------------------------------------------------- the service's answers
\* describeStream: the shards listed after ExclusiveStartShardId
Rest(marker) ==
    IF marker = NoShard THEN stream
    ELSE SubSeq(stream, IndexOf(stream, marker) + 1, Len(stream))

\* getShardIterator with ShardIteratorType LATEST: just after the last record
Latest(s) == Token(s, log[s] + 1)

\* getRecords(token): the records returned, their eventNames being ks
Batch(token, ks) == [j \in 1..Len(ks) |-> Rec(token[2], token[3] + j - 1, ks[j])]

\* getRecords(token) returning k records: NextShardIterator, absent once a
\* closed shard has been read to its end
NextShardIterator(token, k) ==
    IF closed[token[2]] /\ token[3] + k > log[token[2]]
    THEN Undefined
    ELSE Token(token[2], token[3] + k)

\* number of records getRecords(token) can return
Available(token) == log[token[2]] - token[3] + 1

\* ------------------------------------------------------ a stream record
\* The service keeps the number of records of a shard; what a record holds
\* (its eventName) is drawn when getRecords returns it: the tracker reads a
\* record nowhere else.
Kind(r) == r[4]

\* event.dynamodb.Keys / NewImage / OldImage in the low level shape; a stream
\* of view type NEW_AND_OLD_IMAGES carries the images the change has
Keys(r) == <<"raw", "Keys", r[2], r[3]>>

NewImage(r) ==
    IF Kind(r) \in {"INSERT", "MODIFY"} THEN <<"raw", "NewImage", r[2], r[3]>>
    ELSE Undefined

OldImage(r) ==
    IF Kind(r) \in {"MODIFY", "REMOVE"} THEN <<"raw", "OldImage", r[2], r[3]>>
    ELSE Undefined

\* unmarshall() of @aws-sdk/util-dynamodb: the plain JS object of a document
Decode(doc) == <<"js">> \o Tail(doc)

\* ------------------------------------------------ _transformRecord, emit
TransformRecord(record) ==
    IF unmarshall /\ record # Undefined THEN Decode(record) ELSE Undefined

\* the notification the switch of _emitRecordEvents emits for a record
RecordEvent(r) ==
    LET keys == TransformRecord(Keys(r))
        newRecord == TransformRecord(NewImage(r))
        oldRecord == TransformRecord(OldImage(r))
    IN  CASE Kind(r) = "INSERT" -> <<"insert record", newRecord, keys>>
          [] Kind(r) = "MODIFY" -> <<"modify record", newRecord, oldRecord, keys>>
          [] Kind(r) = "REMOVE" -> <<"remove record", oldRecord, keys>>

\* the loop body throws: event.dynamodb of undefined (a TypeError), or the
\* default branch of the switch
Throws(event) ==
    \/ event = Undefined
    \/ Kind(event) \notin {"INSERT", "MODIFY", "REMOVE"}

\* number of events the loop handles before it throws or ends
RECURSIVE Handled(_)
Handled(events) ==
    IF events = <<>> \/ Throws(Head(events)) THEN 0
    ELSE 1 + Handled(Tail(events))

\* _emitRecordEvents: the notifications emitted
EmitRecordEvents(events) == [i \in 1..Handled(events) |-> RecordEvent(events[i])]

\* an emission that runs to the end of the batch whatever it holds
EmitThrowsNever(events) == FALSE

\* _emitRecordEvents threw
EmitThrows(events) == Handled(events) < Len(events)

\* results.flat(): arrays are spread one level, any other element is kept
RECURSIVE Flat(_)
Flat(res) ==
    IF res = <<>> THEN <<>>
    ELSE (IF IsArr(Head(res)) THEN Head(res)[2] ELSE <<Head(res)>>) \o Flat(Tail(res))

\* ----------------------------------------------------------- _trimShards
\* a trim that deletes nothing
TrimKeptAll(tbl) == tbl

\* a trim that deletes every entry without a token
TrimKeptTruthy(tbl) == SelectSeq(tbl, LAMBDA e : Truthy(e.nextShardIterator))

TrimKept(tbl) == SelectSeq(tbl, LAMBDA e : e.nextShardIterator # Null)

TrimRemoved(tbl) == Ids(SelectSeq(tbl, LAMBDA e : e.nextShardIterator = Null))

\* the 'remove shards' notification of one trim pass
RemoveShardsEvents(removedShards) ==
    IF Len(removedShards) > 0 THEN << <<"remove shards", removedShards>> >> ELSE <<>>

\* ----------------------------------------------------- fetchStreamShards
\* a loop that pushes every listed id, known or not
RECURSIVE CollectAll(_, _, _)
CollectAll(tbl, new, page) ==
    IF page = <<>> THEN [shards |-> tbl, newShardIds |-> new]
    ELSE IF Has(tbl, Head(page)) THEN CollectAll(tbl, Append(new, Head(page)), Tail(page))
    ELSE CollectAll(Append(tbl, [shardId |-> Head(page), nextShardIterator |-> Undefined]),
                    Append(new, Head(page)), Tail(page))

\* a loop that sets a fresh entry for every listed id, known or not
RECURSIVE CollectOverwrites(_, _, _)
CollectOverwrites(tbl, new, page) ==
    IF page = <<>> THEN [shards |-> tbl, newShardIds |-> new]
    ELSE IF Has(tbl, Head(page))
    THEN CollectOverwrites([i \in 1..Len(tbl) |->
                               IF tbl[i].shardId = Head(page)
                               THEN [shardId |-> Head(page), nextShardIterator |-> Undefined]
                               ELSE tbl[i]],
                           new, Tail(page))
    ELSE CollectOverwrites(Append(tbl, [shardId |-> Head(page),
                                        nextShardIterator |-> Undefined]),
                           Append(new, Head(page)), Tail(page))

\* the for loop over one page of StreamDescription.Shards
RECURSIVE Collect(_, _, _)
Collect(tbl, new, page) ==
    IF page = <<>> THEN [shards |-> tbl, newShardIds |-> new]
    ELSE IF Has(tbl, Head(page)) THEN Collect(tbl, new, Tail(page))
    ELSE Collect(Append(tbl, [shardId |-> Head(page), nextShardIterator |-> Undefined]),
                 Append(new, Head(page)), Tail(page))

\* a loop that stops after its first page
MorePagesNever(last) == FALSE

\* `while (lastShardId)`: another page is requested after a response that
\* carries LastEvaluatedShardId
MorePages(last) == last # NoShard

\* the 'new shards' notification at the end of fetchStreamShards
NewShardsEvents(ids) ==
    IF Len(ids) > 0 THEN << <<"new shards", ids>> >> ELSE <<>>

\* ------------------------------------- _getShardIterator, _getShardRecords
\* `if (shardData.nextShardIterator) return`: a request is made otherwise
NeedsIterator(e) == ~Truthy(e.nextShardIterator)

\* shardData.nextShardIterator = ShardIterator
SetIterator(e, it) == [e EXCEPT !.nextShardIterator = it]

\* a fetch that leaves the cursor where it was
AfterGetRecordsStale(e, next) == e

\* a fetch that stores NextShardIterator as the response has it
AfterGetRecordsRaw(e, next) == [e EXCEPT !.nextShardIterator = next]

\* the cursor after a getRecords response
AfterGetRecords(e, next) ==
    [e EXCEPT !.nextShardIterator = IF Truthy(next) THEN next ELSE Null]

\* the cursor after an ExpiredIteratorException
AfterExpired(e) == [e EXCEPT !.nextShardIterator = Null]

\* --------------------------------------------------------------- map()
\* map(iterable, fn, limit) of @kessler/async-map-limit: entries are taken from
\* the iterator, in order, while fewer than `limit` requests are pending; an
\* entry whose fn makes no request settles at once
RECURSIVE Take(_, _, _, _)
Take(tbl, phase, nxt, infl) ==
    IF nxt > Len(tbl) \/ Cardinality(infl) >= Limit
    THEN [issued |-> nxt - 1, inflight |-> infl]
    ELSE Take(tbl, phase, nxt + 1,
              IF phase = "records" \/ NeedsIterator(tbl[nxt])
              THEN infl \cup {nxt} ELSE infl)

\* --------------------------------------------------------- a step's result
\* the tracker's next state and what the step showed; Quiet changes nothing
Quiet ==
    [shards |-> shards, pc |-> pc, call |-> call, lastShardId |-> lastShardId,
     newShardIds |-> newShardIds, inflight |-> inflight, issued |-> issued,
     results |-> results, mapFailed |-> mapFailed, preIds |-> preIds,
     listed |-> listed,
     out |-> <<>>, batch |-> <<>>, emitted |-> <<>>, pre |-> {}, seen |-> <<>>,
     nulled |-> {}, removed |-> <<>>,
     trimmed |-> FALSE, discovered |-> FALSE, paged |-> FALSE,
     emitting |-> FALSE, returned |-> FALSE, threw |-> FALSE]

\* what obs holds of a step's result; call is the public method running
\* during the step, batch is what the call that ends in the
\* step has fetched: what it hands to emission, or what is lost if it throws
Seen(st) ==
    [call |-> IF call # "none" THEN call ELSE st.call,
     out |-> st.out, batch |-> st.batch, pre |-> st.pre, seen |-> st.seen,
     trimmed |-> st.trimmed, discovered |-> st.discovered, paged |-> st.paged,
     emitting |-> st.emitting, returned |-> st.returned, threw |-> st.threw]

\* fetchStreamShards is over: its locals are gone
Discovered(st) ==
    [st EXCEPT !.lastShardId = NoShard, !.newShardIds = <<>>,
               !.preIds = {}, !.listed = <<>>]

\* the public method is over
Ended(st) ==
    [Discovered(st) EXCEPT !.pc = "idle", !.call = "none", !.inflight = {},
                           !.issued = 0, !.results = <<>>, !.mapFailed = FALSE]

\* a _getRecords that issues all its requests at once
StartFetchAll(st) ==
    [st EXCEPT !.pc = "records", !.inflight = 1..Len(st.shards),
               !.issued = Len(st.shards),
               !.results = [i \in 1..Len(st.shards) |-> Undefined],
               !.mapFailed = FALSE]

\* _getRecords: one getRecords request per entry
StartFetch(st) ==
    LET t == Take(st.shards, "records", 1, {})
    IN  [st EXCEPT !.pc = "records", !.inflight = t.inflight, !.issued = t.issued,
                   !.results = [i \in 1..Len(st.shards) |-> Undefined],
                   !.mapFailed = FALSE]

\* a fetchStreamRecords that takes an empty table for an error
StartRecordsRejectsEmpty(st) ==
    IF Len(st.shards) = 0 THEN Ended([st EXCEPT !.threw = TRUE])
    ELSE LET t == Take(st.shards, "iterators", 1, {})
         IN  IF t.inflight = {} THEN StartFetch(st)
             ELSE [st EXCEPT !.pc = "iterators", !.inflight = t.inflight,
                             !.issued = t.issued,
                             !.results = [i \in 1..Len(st.shards) |-> Undefined],
                             !.mapFailed = FALSE]

\* fetchStreamRecords up to its first await that waits for the service
StartRecords(st) ==
    IF Len(st.shards) = 0 THEN Ended([st EXCEPT !.returned = TRUE])
    ELSE LET t == Take(st.shards, "iterators", 1, {})
         IN  IF t.inflight = {} THEN StartFetch(st)
             ELSE [st EXCEPT !.pc = "iterators", !.inflight = t.inflight,
                             !.issued = t.issued,
                             !.results = [i \in 1..Len(st.shards) |-> Undefined],
                             !.mapFailed = FALSE]

\* a fetchStreamRecords that emits the records before it trims
FinishEmitsFirst(st) ==
    LET records == Flat(st.results)
    IN  Ended([st EXCEPT
            !.shards = TrimKept(st.shards),
            !.removed = TrimRemoved(st.shards),
            !.out = EmitRecordEvents(records) \o RemoveShardsEvents(TrimRemoved(st.shards)),
            !.batch = records,
            !.emitted = SubSeq(records, 1, Handled(records)),
            !.trimmed = TRUE, !.emitting = TRUE,
            !.returned = ~EmitThrows(records), !.threw = EmitThrows(records)])

\* fetchStreamRecords after _getRecords: flat, trim, emit, return
Finish(st) ==
    LET records == Flat(st.results)
    IN  Ended([st EXCEPT
            !.shards = TrimKept(st.shards),
            !.removed = TrimRemoved(st.shards),
            !.out = RemoveShardsEvents(TrimRemoved(st.shards)) \o EmitRecordEvents(records),
            !.batch = records,
            !.emitted = SubSeq(records, 1, Handled(records)),
            !.trimmed = TRUE, !.emitting = TRUE,
            !.returned = ~EmitThrows(records), !.threw = EmitThrows(records)])

\* map() after one request has settled: the next entries are taken, none
\* once a request was rejected
Refill(st) ==
    LET t == IF st.mapFailed THEN [issued |-> st.issued, inflight |-> st.inflight]
             ELSE Take(st.shards, st.pc, st.issued + 1, st.inflight)
    IN  [st EXCEPT !.inflight = t.inflight, !.issued = t.issued]

\* a fetchStreamRecords that swallows the rejection of _getRecords
SettledSwallows(st) ==
    LET st2 == Refill(st)
    IN  IF st2.inflight # {} THEN st2
        ELSE IF st.pc = "iterators"
        THEN (IF st.mapFailed THEN Ended([st2 EXCEPT !.threw = TRUE])
              ELSE StartFetch(st2))
        ELSE Finish(st2)

\* a fetchStreamRecords that throws as soon as a request is rejected
SettledFailsFast(st) ==
    LET st2 == Refill(st)
    IN  IF st.mapFailed
        THEN Ended([st2 EXCEPT !.threw = TRUE,
                               !.batch = IF st.pc = "records" THEN Flat(st.results)
                                         ELSE <<>>])
        ELSE IF st2.inflight # {} THEN st2
        ELSE IF st.pc = "iterators" THEN StartFetch(st2)
        ELSE Finish(st2)

\* fetchStreamRecords after one request has settled: it waits while a request
\* is pending, throws if the fan-out was rejected, and goes on otherwise
Settled(st) ==
    LET st2 == Refill(st)
    IN  IF st2.inflight # {} THEN st2
        ELSE IF st.mapFailed
        THEN Ended([st2 EXCEPT !.threw = TRUE,
                               !.batch = IF st.pc = "records" THEN Flat(st.results)
                                         ELSE <<>>])
        ELSE IF st.pc = "iterators" THEN StartFetch(st2)
        ELSE Finish(st2)

\* ------------------------------------------- getShardState, setShardState
\* a plain object keyed by shard id: Object.entries lists the keys in the
\* order they were set (shard ids are not integer-like strings)
NoState == [keys |-> <<>>, at |-> <<>>]

\* this._shards.get(id)
Entry(tbl, id) == tbl[CHOOSE i \in 1..Len(tbl) : tbl[i].shardId = id]

\* getShardState: state[shardId] = { ...shardData } for every entry
GetState(tbl) ==
    [keys |-> Ids(tbl),
     at |-> [id \in Range(Ids(tbl)) |-> [shardId |-> Entry(tbl, id).shardId,
                                           nextShardIterator |-> Entry(tbl, id).nextShardIterator]]]

\* a setShardState that keeps the entries the table holds
SetStateMerge(state) ==
    shards \o SelectSeq([i \in 1..Len(state.keys) |-> state.at[state.keys[i]]],
                        LAMBDA e : ~Has(shards, e.shardId))

\* setShardState: a new Map, set(shardId, shardData) over Object.entries(shards)
SetState(state) == [i \in 1..Len(state.keys) |-> state.at[state.keys[i]]]

\* the caller's object after a step of the tracker: an entry the table holds
\* too shows what the tracker wrote to it, up to its deletion from the table
Aliased(state, st) ==
    [state EXCEPT !.at = [id \in DOMAIN state.at |->
        IF id \notin shared THEN state.at[id]
        ELSE IF Has(st.shards, id) THEN Entry(st.shards, id)
        ELSE [state.at[id] EXCEPT !.nextShardIterator = Null]]]

\* ----------------------------------------------------------- the observer
\* reports[s] after the notifications `out`: the last two reports naming s
RECURSIVE ReportIds(_, _, _)
ReportIds(rep, name, ids) ==
    IF ids = <<>> THEN rep
    ELSE ReportIds([rep EXCEPT ![Head(ids)] = <<@[2], name>>], name, Tail(ids))

RECURSIVE Reported(_, _)
Reported(rep, out) ==
    IF out = <<>> THEN rep
    ELSE IF Head(out)[1] \in {"new shards", "remove shards"}
    THEN Reported(ReportIds(rep, Head(out)[1], Head(out)[2]), Tail(out))
    ELSE Reported(rep, Tail(out))

\* a step of the tracker: its next state and what the observer keeps of it
Tracker(st) ==
    /\ shards' = st.shards
    /\ pc' = st.pc
    /\ call' = st.call
    /\ lastShardId' = st.lastShardId
    /\ newShardIds' = st.newShardIds
    /\ inflight' = st.inflight
    /\ issued' = st.issued
    /\ results' = st.results
    /\ mapFailed' = st.mapFailed
    /\ preIds' = st.preIds
    /\ listed' = st.listed
    /\ obs' = Seen(st)
    /\ emitted' = emitted \cup {<<r[2], r[3]>> : r \in Range(st.emitted)}
    /\ reports' = Reported(reports, st.out)
    /\ anyFailed' = (anyFailed \/ st.threw)
    /\ nulled' = (nulled \cup st.nulled) \ Range(st.removed)
    /\ firstDone' = (firstDone \/ (call = "fetchStreamState" /\ st.returned))
    /\ lateFrom' = IF ~firstDone /\ call = "fetchStreamState" /\ st.returned
                   THEN log ELSE lateFrom
    /\ snap' = Aliased(snap, st)
    /\ shared' = {id \in shared : Has(st.shards, id)}
    /\ UNCHANGED <<stream, log, closed, argVars, unmarshall, edits, taken>>

\* a step of the tracker on a response of the service
Commit(st) ==
    /\ budget' = budget
    /\ Tracker(st)

\* a step of the tracker on a request the service rejects
Fault(st) ==
    /\ budget < MaxEvents
    /\ budget' = budget + 1
    /\ Tracker(st)

\* a step of the service on its own: the tracker does not move
Service ==
    /\ budget < MaxEvents
    /\ budget' = budget + 1
    /\ obs' = Seen(Quiet)
    /\ UNCHANGED <<trackerVars, histVars, callerVars>>

\* ------------------------------------------------------------------- Init
\* no call is running, nothing was emitted, the caller holds no state object
NoCall ==
    /\ call = "none"
    /\ lastShardId = NoShard
    /\ newShardIds = <<>>
    /\ inflight = {}
    /\ issued = 0
    /\ results = <<>>
    /\ mapFailed = FALSE
    /\ obs = [call |-> "none", out |-> <<>>, batch |-> <<>>, pre |-> {}, seen |-> <<>>,
              trimmed |-> FALSE, discovered |-> FALSE, paged |-> FALSE,
              emitting |-> FALSE, returned |-> FALSE, threw |-> FALSE]
    /\ emitted = {}
    /\ firstDone = FALSE
    /\ lateFrom = [s \in ShardIds |-> 0]
    /\ anyFailed = FALSE
    /\ nulled = {}
    /\ preIds = {}
    /\ listed = <<>>
    /\ snap = NoState
    /\ shared = {}
    /\ edits = 0
    /\ taken = FALSE

\* a new tracker on a stream that has no shard yet
Init ==
    /\ stream = <<>>
    /\ budget = 0
    /\ log = [s \in ShardIds |-> 0]
    /\ closed = [s \in ShardIds |-> FALSE]
    /\ ddbStreams = AnObject
    /\ streamArn = AString
    /\ unmarshall \in BOOLEAN
    /\ shards = <<>>
    /\ pc = "idle"
    /\ reports = [s \in ShardIds |-> <<"none", "none">>]
    /\ NoCall

\* ---------------------------------------------------- the service's steps
\* the table is written: a record is appended to an open shard
PutItem ==
    /\ \E s \in Range(stream) :
          /\ ~closed[s]
          /\ log' = [log EXCEPT ![s] = @ + 1]
    /\ UNCHANGED <<stream, closed>>
    /\ Service

\* the stream gets a new shard, listed after the others
NewShard ==
    /\ stream' = Append(stream, Len(stream) + 1)
    /\ UNCHANGED <<log, closed>>
    /\ Service

\* a shard is closed: it stays listed and takes no more records
CloseShard ==
    /\ \E s \in Range(stream) :
          /\ ~closed[s]
          /\ closed' = [closed EXCEPT ![s] = TRUE]
    /\ UNCHANGED <<stream, log>>
    /\ Service

\* ---------------------------------------------------- the tracker's steps
\* fetchStreamState() / fetchStreamShards() up to the first describeStream
FetchStreamShards ==
    /\ pc = "idle"
    /\ \E c \in {"fetchStreamState", "fetchStreamShards"} :
          Commit([Quiet EXCEPT
              !.shards = TrimKept(shards),
              !.removed = TrimRemoved(shards),
              !.out = RemoveShardsEvents(TrimRemoved(shards)),
              !.trimmed = TRUE,
              !.pc = "describe", !.call = c,
              !.lastShardId = NoShard, !.newShardIds = <<>>,
              !.preIds = Range(Ids(TrimKept(shards))), !.listed = <<>>])

\* one describeStream response: a page of n shards; the loop goes on while
\* the response carries LastEvaluatedShardId, then 'new shards' is emitted
\* and fetchStreamState goes on to fetchStreamRecords
DescribeStream ==
    /\ pc = "describe"
    /\ LET rest == Rest(lastShardId)
       IN  \E n \in (IF rest = <<>> THEN {0} ELSE 1..Len(rest)) :
             LET page == SubSeq(rest, 1, n)
                 last == IF n < Len(rest) THEN page[n] ELSE NoShard
                 c == Collect(shards, newShardIds, page)
                 st == [Quiet EXCEPT !.shards = c.shards,
                                     !.newShardIds = c.newShardIds,
                                     !.lastShardId = last,
                                     !.listed = listed \o page]
                 done == [st EXCEPT !.out = NewShardsEvents(c.newShardIds),
                                    !.discovered = TRUE,
                                    !.paged = lastShardId # NoShard,
                                    !.pre = preIds, !.seen = listed \o page]
             IN  IF MorePages(last) THEN Commit(st)
                 ELSE IF call = "fetchStreamShards" THEN Commit(Ended(done))
                 ELSE Commit(StartRecords(Discovered(done)))

\* describeStream is rejected: fetchStreamShards throws
DescribeStreamFails ==
    /\ pc = "describe"
    /\ Fault(Ended([Quiet EXCEPT !.threw = TRUE]))

\* fetchStreamRecords() called on its own
FetchStreamRecords ==
    /\ pc = "idle"
    /\ Commit(StartRecords([Quiet EXCEPT !.call = "fetchStreamRecords"]))

\* a getShardIterator response
GetShardIterator ==
    /\ pc = "iterators"
    /\ \E i \in inflight :
          Commit(Settled([Quiet EXCEPT
              !.shards[i] = SetIterator(shards[i], Latest(shards[i].shardId)),
              !.inflight = inflight \ {i}]))

\* getShardIterator is rejected
GetShardIteratorFails ==
    /\ pc = "iterators"
    /\ \E i \in inflight :
          Fault(Settled([Quiet EXCEPT !.inflight = inflight \ {i},
                                       !.mapFailed = TRUE]))

\* a getRecords response with k records
GetRecords ==
    /\ pc = "records"
    /\ \E i \in inflight :
          LET token == shards[i].nextShardIterator
          IN  \E k \in 0..Available(token) : \E ks \in [1..k -> Kinds] :
                LET e == AfterGetRecords(shards[i], NextShardIterator(token, k))
                IN  Commit(Settled([Quiet EXCEPT
                        !.shards[i] = e,
                        !.results[i] = Arr(Batch(token, ks)),
                        !.nulled = IF e.nextShardIterator = Null
                                   THEN {e.shardId} ELSE {},
                        !.inflight = inflight \ {i}]))

\* getRecords is rejected with ExpiredIteratorException: caught, the function
\* returns undefined
GetRecordsExpired ==
    /\ pc = "records"
    /\ \E i \in inflight :
          Fault(Settled([Quiet EXCEPT
              !.shards[i] = AfterExpired(shards[i]),
              !.results[i] = Undefined,
              !.nulled = {shards[i].shardId},
              !.inflight = inflight \ {i}]))

\* getRecords is rejected with another error: rethrown
GetRecordsFails ==
    /\ pc = "records"
    /\ \E i \in inflight :
          Fault(Settled([Quiet EXCEPT !.inflight = inflight \ {i},
                                       !.mapFailed = TRUE]))

Next ==
    \/ PutItem
    \/ NewShard
    \/ CloseShard
    \/ FetchStreamShards
    \/ DescribeStream
    \/ DescribeStreamFails
    \/ FetchStreamRecords
    \/ GetShardIterator
    \/ GetShardIteratorFails
    \/ GetRecords
    \/ GetRecordsExpired
    \/ GetRecordsFails

Spec == Init /\ [][Next]_vars

\* ------------------------------------------- the caller and its state object
\* a step of the caller between two calls of the refresh cycle
Caller ==
    /\ pc = "idle"
    /\ obs' = Seen(Quiet)
    /\ UNCHANGED <<svcVars, argVars, unmarshall, pc, call, lastShardId, newShardIds, fanVars,
                   histVars>>

\* a write of the caller to the object it holds
Edit ==
    /\ edits < MaxEdits
    /\ edits' = edits + 1
    /\ UNCHANGED taken
    /\ Caller

\* state = getShardState()
GetShardState ==
    /\ snap' = GetState(shards)
    /\ shared' = {}
    /\ taken' = TRUE
    /\ UNCHANGED <<shards, edits>>
    /\ Caller

\* setShardState(state) between two calls: the caller hands over the object
\* it holds, or a copy of it that it drops (a state loaded from storage)
SetShardState ==
    /\ shards' = SetState(snap)
    /\ \E own \in BOOLEAN : shared' = IF own THEN Range(snap.keys) ELSE {}
    /\ UNCHANGED <<snap, edits, taken>>
    /\ Caller

\* the caller adds a shard id to its object
AddKey ==
    /\ \E id \in 1..MaxStateShards :
          /\ id \notin Range(snap.keys)
          /\ snap' = [keys |-> Append(snap.keys, id),
                      at |-> [k \in Range(snap.keys) \cup {id} |->
                                IF k = id THEN [shardId |-> id, nextShardIterator |-> Undefined]
                                ELSE snap.at[k]]]
    /\ UNCHANGED <<shards, shared>>
    /\ Edit

\* the caller deletes a shard id from its object
DeleteKey ==
    /\ \E id \in Range(snap.keys) :
          /\ snap' = [keys |-> SelectSeq(snap.keys, LAMBDA k : k # id),
                      at |-> [k \in Range(snap.keys) \ {id} |-> snap.at[k]]]
          /\ shared' = shared \ {id}
    /\ UNCHANGED shards
    /\ Edit

\* the caller writes the cursor of an entry of its object:
\* the table's entry is written too when it is the same object
SetCursor ==
    /\ \E id \in Range(snap.keys) : \E c \in {Null, Token(id, 1)} :
          /\ snap.at[id].nextShardIterator # c
          /\ snap' = [snap EXCEPT !.at[id].nextShardIterator = c]
          /\ shards' = [i \in 1..Len(shards) |->
                          IF shards[i].shardId = id /\ id \in shared
                          THEN [shards[i] EXCEPT !.nextShardIterator = c]
                          ELSE shards[i]]
    /\ UNCHANGED shared
    /\ Edit

\* the tables of a tracker that has discovered some of the shards 1..n, in the
\* order of their ids, and has acquired the cursor of some of them
RECURSIVE Tables(_)
Tables(n) ==
    IF n = 0 THEN {<<>>}
    ELSE Tables(n - 1) \cup
         {Append(t, [shardId |-> n, nextShardIterator |-> c]) :
              t \in Tables(n - 1), c \in {Undefined, Token(n, 1)}}

\* a tracker between two calls, on a stream of MaxStateShards shards, the last
\* one open or closed, to which nothing is written and none of whose requests
\* is rejected; the caller holds no state object yet
InitState ==
    /\ stream = [i \in 1..MaxStateShards |-> i]
    /\ budget = MaxEvents
    /\ log = [s \in ShardIds |-> 0]
    /\ \E c \in BOOLEAN : closed = [s \in ShardIds |-> c /\ s = MaxStateShards]
    /\ ddbStreams = AnObject
    /\ streamArn = AString
    /\ unmarshall = TRUE
    /\ shards \in Tables(MaxStateShards)
    /\ pc = "idle"
    /\ reports = [s \in ShardIds |-> IF Has(shards, s) THEN <<"none", "new shards">>
                                     ELSE <<"none", "none">>]
    /\ NoCall

NextState ==
    \/ FetchStreamRecords
    \/ GetShardIterator
    \/ GetRecords
    \/ GetShardState
    \/ SetShardState
    \/ AddKey
    \/ DeleteKey
    \/ SetCursor

SpecState == InitState /\ [][NextState]_vars

\* ------------------------------------------------------ a restored table
\* the tables setShardState can leave: some of the shards 1..n, each with a
\* cursor that is absent, null or a token
RECURSIVE RestoredTables(_)
RestoredTables(n) ==
    IF n = 0 THEN {<<>>}
    ELSE RestoredTables(n - 1) \cup
         {Append(t, [shardId |-> n, nextShardIterator |-> c]) :
              t \in RestoredTables(n - 1), c \in {Undefined, Null, Token(n, 1)}}

\* a tracker after setShardState, on a stream of MaxStateShards shards, the
\* last one open or closed, to which nothing is written and none of whose
\* requests is rejected
InitRestored ==
    /\ stream = [i \in 1..MaxStateShards |-> i]
    /\ budget = MaxEvents
    /\ log = [s \in ShardIds |-> 0]
    /\ \E c \in BOOLEAN : closed = [s \in ShardIds |-> c /\ s = MaxStateShards]
    /\ ddbStreams = AnObject
    /\ streamArn = AString
    /\ unmarshall = TRUE
    /\ shards \in RestoredTables(MaxStateShards)
    /\ pc = "idle"
    /\ reports = [s \in ShardIds |-> IF Has(shards, s) THEN <<"none", "new shards">>
                                     ELSE <<"none", "none">>]
    /\ NoCall

NextRestored ==
    \/ FetchStreamShards
    \/ DescribeStream
    \/ FetchStreamRecords
    \/ GetShardIterator
    \/ GetRecords

SpecRestored == InitRestored /\ [][NextRestored]_vars

\* -------------------------------------------------------- repeated polls
\* fetchStreamState() up to the first describeStream
FetchStreamState == FetchStreamShards /\ call' = "fetchStreamState"

\* the caller polls with fetchStreamState() and nothing else
NextStable ==
    \/ FetchStreamState
    \/ DescribeStream
    \/ GetShardIterator
    \/ GetRecords

\* the listing of the service no longer changes, no request is rejected,
\* every request is answered and the caller calls again after each call
SpecStable == InitRestored /\ [][NextStable]_vars /\ WF_vars(NextStable)

\* ------------------------------------------------ a table beyond the limit
\* a tracker that has discovered the MaxFanShards shards of a stream to which
\* nothing is written and none of whose requests is rejected
InitFan ==
    /\ stream = [i \in 1..MaxFanShards |-> i]
    /\ budget = MaxEvents
    /\ log = [s \in 1..MaxFanShards |-> 0]
    /\ closed = [s \in 1..MaxFanShards |-> FALSE]
    /\ ddbStreams = AnObject
    /\ streamArn = AString
    /\ unmarshall = TRUE
    /\ shards = [i \in 1..MaxFanShards |-> [shardId |-> i, nextShardIterator |-> Undefined]]
    /\ pc = "idle"
    /\ reports = [s \in 1..MaxFanShards |-> <<"none", "new shards">>]
    /\ NoCall

NextFan ==
    \/ FetchStreamRecords
    \/ GetShardIterator
    \/ GetRecords

SpecFan == InitFan /\ [][NextFan]_vars

\* ------------------------------------------------------- the constructor
\* the two checks of the constructor: one of them throws
ConstructorThrows(client, arn) ==
    \/ StrictEquals(Not(TypeOf(client)), <<"string", "object">>)
    \/ StrictEquals(Not(TypeOf(arn)), <<"string", "string">>)

\* new DynamoDBStream(ddbStreams, streamArn, unmarshall)
Construct ==
    /\ pc = "new"
    /\ IF ConstructorThrows(ddbStreams, streamArn)
       THEN Commit([Quiet EXCEPT !.pc = "thrown", !.threw = TRUE])
       ELSE Commit([Quiet EXCEPT !.pc = "idle", !.returned = TRUE])

\* the tracker can reach the service: it holds a client and a stream arn
Usable == ddbStreams = AnObject /\ streamArn = AString

\* describeStream of a tracker that holds no client throws a TypeError, and
\* the service rejects a stream arn that is no string: fetchStreamShards throws
DescribeStreamThrows ==
    /\ pc = "describe"
    /\ Commit(Ended([Quiet EXCEPT !.threw = TRUE]))

\* the caller is about to call the constructor, with any two values
InitNew ==
    /\ stream = <<>>
    /\ budget = 0
    /\ log = [s \in ShardIds |-> 0]
    /\ closed = [s \in ShardIds |-> FALSE]
    /\ ddbStreams \in Args
    /\ streamArn \in Args
    /\ unmarshall \in BOOLEAN
    /\ shards = <<>>
    /\ pc = "new"
    /\ reports = [s \in ShardIds |-> <<"none", "none">>]
    /\ NoCall

NextNew ==
    \/ Construct
    \/ Usable /\ Next
    \/ ~Usable /\ (FetchStreamShards \/ FetchStreamRecords \/ DescribeStreamThrows)

SpecNew == InitNew /\ [][NextNew]_vars

\* ================================================================ claims
RecordKinds == {"INSERT", "MODIFY", "REMOVE"}

IsRecordEvent(e) == e[1] \in {"insert record", "modify record", "remove record"}

\* the record notifications among the notifications of a step
RecordEvents(out) == SelectSeq(out, IsRecordEvent)

RemoveEvents(out) == SelectSeq(out, LAMBDA e : e[1] = "remove shards")

NewEvents(out) == SelectSeq(out, LAMBDA e : e[1] = "new shards")

\* the entries of a batch that are records, and those of a recognized kind
Records(batch) == SelectSeq(batch, LAMBDA r : r # Undefined)

Recognized(batch) == SelectSeq(batch, LAMBDA r : r # Undefined /\ Kind(r) \in RecordKinds)

\* the decoded sub-document the specification asks for: the decode transform,
\* and the raw sub-document when none was supplied
Decoded(doc) ==
    IF doc = Undefined THEN Undefined
    ELSE IF unmarshall THEN Decode(doc) ELSE doc

\* the notification the specification asks for, for a record of a recognized kind
Expected(r) ==
    CASE Kind(r) = "INSERT" -> <<"insert record", Decoded(NewImage(r)), Decoded(Keys(r))>>
      [] Kind(r) = "MODIFY" -> <<"modify record", Decoded(NewImage(r)), Decoded(OldImage(r)),
                                 Decoded(Keys(r))>>
      [] Kind(r) = "REMOVE" -> <<"remove record", Decoded(OldImage(r)), Decoded(Keys(r))>>

\* C1: every record of kind INSERT, MODIFY or REMOVE in the batch handed to
\* _emitRecordEvents gets exactly one notification, of the matching type and
\* carrying the decoded images and key, and no other record notification is
\* emitted: the record notifications are those expected, one per such record.
C1_OneEventPerRecord ==
    obs.emitting =>
        RecordEvents(obs.out) =
            [i \in 1..Len(Recognized(obs.batch)) |-> Expected(Recognized(obs.batch)[i])]

\* an entry whose batch has been fetched and not yet handed to emission
Pending(i) == pc = "records" /\ i \notin inflight

\* C2: once a first fetchStreamState() has completed and while no call has
\* failed, no record written after that completion is skipped: whenever the
\* cursor of a shard stands after such a record, the record has been emitted
\* (or its batch waits for the emission of the running call).
C2_NoChangeMissed ==
    (firstDone /\ ~anyFailed) =>
        \A i \in 1..Len(shards) :
            LET c == shards[i].nextShardIterator
            IN  (IsToken(c) /\ ~Pending(i)) =>
                    \A j \in (lateFrom[c[2]] + 1)..(c[3] - 1) : <<c[2], j>> \in emitted

\* C3: over calls that all succeeded, a record is emitted at most once and the
\* records of a shard are emitted in the order they were written: a step that
\* emits record i of shard s emits it after every record of s emitted so far,
\* all of which were written before i.
C3_AtMostOnceInOrder ==
    [][(obs'.emitting /\ ~anyFailed') =>
          \A j \in 1..Handled(obs'.batch) :
              LET r == obs'.batch[j]
              IN  /\ \A x \in emitted : x[1] = r[2] => x[2] < r[3]
                  /\ \A h \in 1..(j - 1) :
                        obs'.batch[h][2] = r[2] => obs'.batch[h][3] < r[3]]_vars

\* C3's case: a call emits a record of a shard of which an earlier call has
\* emitted a record
C3_Witness ==
    /\ obs.emitting /\ ~anyFailed
    /\ \E j \in 1..Handled(obs.batch) : \E x \in emitted :
          /\ x[1] = obs.batch[j][2]
          /\ x[2] < obs.batch[j][3]
          /\ \A h \in 1..Len(obs.batch) :
                obs.batch[h] # Undefined => <<obs.batch[h][2], obs.batch[h][3]>> # x

\* C4: an ExpiredIteratorException on one shard is not fatal: a call whose
\* fetches all succeeded or expired, and whose records are all of a recognized
\* kind, returns without error and emits one notification per fetched record.
C4_ExpiryNotFatal ==
    (obs.emitting /\ Recognized(obs.batch) = Records(obs.batch)) =>
        /\ obs.returned /\ ~obs.threw
        /\ Len(RecordEvents(obs.out)) = Len(Records(obs.batch))

\* C5: a shard whose cursor became null is removed by the next trim pass and
\* reported in exactly one 'remove shards' notification: right after a trim
\* pass no such shard is left, and the pass emitted at most one notification,
\* naming each removed id once.
C5_NullIsTrimmed ==
    obs.trimmed =>
        /\ nulled = {}
        /\ Len(RemoveEvents(obs.out)) <= 1
        /\ \A e \in Range(RemoveEvents(obs.out)) :
              \A a, b \in 1..Len(e[2]) : e[2][a] = e[2][b] => a = b

\* the raw sub-documents of a record, in the notification of its kind
Raw(r) ==
    CASE Kind(r) = "INSERT" -> <<"insert record", NewImage(r), Keys(r)>>
      [] Kind(r) = "MODIFY" -> <<"modify record", NewImage(r), OldImage(r), Keys(r)>>
      [] Kind(r) = "REMOVE" -> <<"remove record", OldImage(r), Keys(r)>>

\* C6: without an unmarshall function every record notification carries the
\* raw Keys, NewImage and OldImage of its record.
C6_PassThrough ==
    (obs.emitting /\ ~unmarshall) =>
        \A i \in 1..Len(RecordEvents(obs.out)) :
            RecordEvents(obs.out)[i] = Raw(obs.batch[i])

\* C7: when the batch holds a record of an unrecognized kind, the call fails,
\* and neither that record nor any record after it in the batch is notified
\* (the notifications stop before it; none of these records is ever emitted).
C7_UnknownKindFails ==
    \A j \in 1..Len(obs.batch) :
        (obs.emitting /\ obs.batch[j] # Undefined /\ Kind(obs.batch[j]) \notin RecordKinds) =>
            /\ obs.threw /\ ~obs.returned
            /\ Len(RecordEvents(obs.out)) < j
            /\ \A h \in j..Len(obs.batch) :
                  obs.batch[h] # Undefined =>
                      <<obs.batch[h][2], obs.batch[h][3]>> \notin emitted

\* C7's case: a record of an unrecognized kind, after a notified record and
\* before a record of a recognized kind
C7_Witness ==
    /\ obs.emitting
    /\ Len(RecordEvents(obs.out)) >= 1
    /\ \E j \in 1..(Len(obs.batch) - 1) :
          /\ obs.batch[j] # Undefined /\ Kind(obs.batch[j]) \notin RecordKinds
          /\ obs.batch[j + 1] # Undefined /\ Kind(obs.batch[j + 1]) \in RecordKinds

\* the notification name of a record's kind
EventName(r) ==
    CASE Kind(r) = "INSERT" -> "insert record"
      [] Kind(r) = "MODIFY" -> "modify record"
      [] Kind(r) = "REMOVE" -> "remove record"
      [] OTHER -> "none"

\* C8: the record notifications of a call follow the flattened batch, no
\* record reordered, merged or dropped: when every fetched record is of a
\* recognized kind, the k-th notification is that of the k-th fetched record
\* and there are as many notifications as records.
C8_EmitsFlattenedBatch ==
    (obs.emitting /\ Recognized(obs.batch) = Records(obs.batch)) =>
        /\ Len(RecordEvents(obs.out)) = Len(Records(obs.batch))
        /\ \A i \in 1..Len(RecordEvents(obs.out)) :
              RecordEvents(obs.out)[i][1] = EventName(Records(obs.batch)[i])

\* the ids of `seen` that are not in `pre`, each once, in the order of `seen`
RECURSIVE FirstNew(_, _)
FirstNew(seen, pre) ==
    IF seen = <<>> THEN <<>>
    ELSE IF Head(seen) \in pre THEN FirstNew(Tail(seen), pre)
    ELSE <<Head(seen)>> \o FirstNew(Tail(seen), pre \cup {Head(seen)})

\* C9: a fetchStreamShards that completes emits one 'new shards' notification
\* if and only if it inserted a shard; the notification lists the ids that
\* were not in the table after the first trim, each once, in the order the
\* service returned them over all pages.
C9_NewShardsOnce ==
    obs.discovered =>
        LET inserted == Range(Ids(shards)) \ obs.pre
            news == NewEvents(obs.out)
        IN  /\ Len(news) <= 1
            /\ (Len(news) = 1) <=> (inserted # {})
            /\ Len(news) = 1 => news[1][2] = FirstNew(obs.seen, obs.pre)
            /\ Range(FirstNew(obs.seen, obs.pre)) = inserted

\* C9's case: the service lists a shard the table holds and, after it, two
\* shards it does not hold
C9_Witness ==
    /\ obs.discovered
    /\ obs.pre \cap Range(obs.seen) # {}
    /\ Len(FirstNew(obs.seen, obs.pre)) >= 2

\* C10: for each shard id the 'new shards' and 'remove shards' reports
\* alternate, starting with 'new shards'.
C10_ReportsAlternate ==
    \A s \in ShardIds :
        reports[s] \in {<<"none", "none">>, <<"none", "new shards">>,
                        <<"new shards", "remove shards">>,
                        <<"remove shards", "new shards">>}

\* C11: fetchStreamRecords() on an empty table (called by the user, or by
\* fetchStreamState after a discovery that found no shard) is a no-op: the
\* call is over at once with no request issued, it emits nothing, it returns
\* without error and the table is still empty.
C11_EmptyTableNoOp ==
    [][((FetchStreamRecords /\ shards = <<>>)
        \/ (DescribeStream /\ call = "fetchStreamState" /\ pc' # "describe"
                            /\ shards' = <<>>)) =>
          /\ pc' = "idle" /\ inflight' = {} /\ issued' = 0
          /\ obs'.out = <<>>
          /\ obs'.returned /\ ~obs'.threw
          /\ shards' = <<>>]_vars

\* C11's case: fetchStreamRecords() has returned on an empty table while the
\* stream has a shard the tracker has not discovered
C11_Witness ==
    /\ obs.returned /\ ~obs.emitting /\ ~obs.discovered
    /\ shards = <<>> /\ pc = "idle"
    /\ stream # <<>>

\* C12: the object getShardState() returned is independent of the table: a
\* write of the caller to it (a key added or deleted, a cursor written) never
\* changes the table, and no later step of a refresh changes it.
C12_IndependentCopy ==
    [][taken =>
          /\ edits' # edits => shards' = shards
          /\ (FetchStreamRecords \/ GetShardIterator \/ GetRecords) => snap' = snap]_vars

\* C13: setShardState(s) replaces the table: getShardState() right after it
\* equals s, the table holds the keys of s in their order and no entry it held
\* under another key, nothing is emitted; and restoring the state just taken
\* leaves the table as it was.
C13_RestoreReplaces ==
    [][SetShardState =>
          /\ GetState(shards') = snap
          /\ Ids(shards') = snap.keys
          /\ \A i \in 1..Len(shards) :
                shards[i].shardId \notin Range(snap.keys) => ~Has(shards', shards[i].shardId)
          /\ obs'.out = <<>>
          /\ snap = GetState(shards) => shards' = shards]_vars

\* C13's case: a state object has been restored over a table that held a
\* shard the object does not name, and the restored table is not empty: the
\* shard was reported new, is gone, and was never reported removed
C13_Witness ==
    /\ pc = "idle" /\ taken /\ shared # {}
    /\ \E id \in ShardIds :
          reports[id] = <<"none", "new shards">> /\ ~Has(shards, id)

\* C14: once a getRecords request of a call was rejected with an error other
\* than expiry, the call can only end by throwing; until then and when it
\* ends it emits nothing and runs no trim, the table keeps its entries, and
\* the only cursor a step changes is that of the request that settles in it
\* (updates made by the fetches that succeeded are kept, entries whose request
\* was not issued are not touched).
C14_FetchFailureAborts ==
    [][(pc = "records" /\ (mapFailed \/ GetRecordsFails)) =>
          /\ \/ pc' = "records" /\ mapFailed'
             \/ pc' = "idle" /\ obs'.threw /\ ~obs'.returned
          /\ obs'.out = <<>> /\ ~obs'.trimmed /\ ~obs'.emitting
          /\ Ids(shards') = Ids(shards)
          /\ \A i \in 1..Len(shards) : i \notin inflight => shards'[i] = shards[i]]_vars

\* C14's case: a call has ended with an error before emission after it had
\* fetched a record of another shard, whose cursor stands after that record
C14_Witness ==
    /\ pc = "idle" /\ obs.threw /\ ~obs.emitting /\ ~obs.trimmed
    /\ \E j \in 1..Len(Records(obs.batch)) : \E i \in 1..Len(shards) :
          LET r == Records(obs.batch)[j]
              c == shards[i].nextShardIterator
          IN  shards[i].shardId = r[2] /\ IsToken(c) /\ c[3] > r[3]
              /\ <<r[2], r[3]>> \notin emitted

\* a service client is an object, a stream identifier is a string
ValidArgs == TypeOf(ddbStreams) = <<"string", "object">> /\ ddbStreams # Null
             /\ TypeOf(streamArn) = <<"string", "string">>

\* C15: a constructor call with a missing or non-object client, or a missing
\* or non-string stream identifier, throws: no tracker is created from such
\* arguments, and so no request is made with them.
C15_InvalidArgsThrow ==
    (pc # "new" /\ ~ValidArgs) => pc = "thrown"

\* in `out` no 'remove shards' notification comes after a record notification
RemovesFirst(out) ==
    \A i, j \in 1..Len(out) :
        (i < j /\ IsRecordEvent(out[i])) => out[j][1] # "remove shards"

\* C16: a fetchStreamState() call goes through its phases in order. It starts
\* with a trim and the first describeStream; discovery ends before any
\* getShardIterator or getRecords request; the first getRecords request is
\* issued by the step in which the last getShardIterator request completes;
\* the call ends with the second trim and the emission, 'remove shards'
\* before every record event; and when discovery fails the call ends at once,
\* with no request of fetchStreamRecords issued.
C16_PhasesInOrder ==
    [][(call = "fetchStreamState" \/ call' = "fetchStreamState") =>
          /\ pc = "idle" => pc' = "describe" /\ obs'.trimmed /\ ~obs'.discovered
          /\ pc = "describe" =>
                \/ pc' = "describe" /\ ~obs'.discovered /\ inflight' = {}
                \/ pc' \in {"iterators", "records"} /\ obs'.discovered /\ ~obs'.threw
                \/ pc' = "idle" /\ obs'.discovered /\ obs'.returned /\ shards' = <<>>
                \/ pc' = "idle" /\ obs'.threw /\ ~obs'.discovered /\ ~obs'.emitting
                               /\ inflight' = {} /\ issued' = 0
          /\ pc = "iterators" =>
                \/ pc' = "iterators"
                \/ pc' = "records" /\ Cardinality(inflight) = 1 /\ issued = Len(shards)
                                  /\ \A i \in 1..Len(shards') : IsToken(shards'[i].nextShardIterator)
                \/ pc' = "idle" /\ obs'.threw /\ ~obs'.emitting
          /\ pc = "records" =>
                \/ pc' = "records"
                \/ pc' = "idle" /\ obs'.threw /\ ~obs'.emitting /\ ~obs'.trimmed
                \/ pc' = "idle" /\ obs'.trimmed /\ obs'.emitting /\ RemovesFirst(obs'.out)]_vars

\* C16's case: a fetchStreamState() call has gone through all its phases and
\* its last step has emitted a 'remove shards' notification and a record event
C16_Witness ==
    /\ obs.call = "fetchStreamState" /\ obs.emitting /\ obs.returned
    /\ RemoveEvents(obs.out) # <<>>
    /\ RecordEvents(obs.out) # <<>>

\* C17: at every moment of the acquisition phase and of the fetch phase at
\* most 10 requests are issued and not completed, whatever the size of the
\* table.
C17_AtMostTenInFlight ==
    pc \in {"iterators", "records"} => Cardinality(inflight) <= 10

\* C17's case: in the fetch phase 10 requests are pending, a request has
\* completed and an entry of the table waits for its request to be issued
C17_Witness ==
    /\ pc = "records"
    /\ Cardinality(inflight) = 10
    /\ issued < Len(shards)
    /\ \E i \in 1..issued : i \notin inflight

\* C18: shard discovery follows pagination to the end. The step that starts
\* fetchStreamShards leaves no marker for the first request; every response
\* is a page of the shards listed after the marker of its request; a response
\* that carries a marker is followed by a request with that marker, the id
\* that ends the pages listed so far; the discovery completes on a response
\* without a marker, when the pages have listed every shard of the stream;
\* every id listed on any page is then a key of the table, and an id that was
\* not a key before the call has an absent cursor
C18_PaginatesToEnd ==
    [][/\ FetchStreamShards =>
             pc' = "describe" /\ lastShardId' = NoShard /\ listed' = <<>>
       /\ DescribeStream =>
             /\ \E n \in 0..Len(Rest(lastShardId)) :
                   LET page == SubSeq(Rest(lastShardId), 1, n)
                   IN  IF obs'.discovered THEN obs'.seen = listed \o page
                                          ELSE listed' = listed \o page
             /\ ~obs'.discovered =>
                   /\ pc' = "describe"
                   /\ listed' # <<>>
                   /\ lastShardId' = listed'[Len(listed')]
                   /\ Rest(lastShardId') # <<>>
             /\ obs'.discovered =>
                   /\ obs'.seen = stream
                   /\ \A i \in 1..Len(obs'.seen) :
                         /\ Has(shards', obs'.seen[i])
                         /\ obs'.seen[i] \notin obs'.pre =>
                               \E k \in 1..Len(shards') :
                                  /\ shards'[k].shardId = obs'.seen[i]
                                  /\ shards'[k].nextShardIterator = Undefined
      ]_vars

\* C18's case: a discovery that took more than one request completes; its
\* first page listed a shard the table knew, a later one a shard new to it
C18_Witness ==
    /\ obs.discovered
    /\ obs.paged
    /\ Len(obs.seen) >= 2
    /\ obs.seen[1] \in obs.pre
    /\ obs.seen[Len(obs.seen)] \notin obs.pre
    /\ \A i \in 1..Len(obs.seen) : Has(shards, obs.seen[i])

\* the cursor of the entry of id in tbl
Cursor(tbl, id) == tbl[IndexOf(Ids(tbl), id)].nextShardIterator

\* C19: the cursor of an entry that a step keeps in the table either stays
\* as it is or goes from absent to a token, from a token to a token, or from
\* a token to null; a null cursor is never replaced by a token.
C19_CursorTransitions ==
    [][\A id \in ShardIds :
          (Has(shards, id) /\ Has(shards', id)) =>
              LET a == Cursor(shards, id)
                  b == Cursor(shards', id)
              IN  \/ a = b
                  \/ a = Undefined /\ IsToken(b)
                  \/ IsToken(a) /\ (IsToken(b) \/ b = Null)
      ]_vars

\* C20: the fetch phase issues one getRecords request per entry, with the
\* entry's cursor: the phase starts with a request for each of the first
\* entries, each holding a token; later requests are for entries not yet
\* taken; the phase completes when every entry has had its request. A
\* response of k records (a step of the phase that settles a request without
\* a rejection by the service) changes the entry of its request and no other: the
\* cursor becomes the token that continues after the k records, or null when
\* the closed shard gave none; the k records, those at the request's cursor,
\* are the entry's element of the result, which the call flattens in table
\* order once the last response is in.
C20_OneFetchPerEntry ==
    [][/\ (pc # "records" /\ pc' = "records") =>
             /\ inflight' = 1..issued'
             /\ issued' <= Len(shards')
             /\ \A i \in 1..Len(shards') :
                   /\ results'[i] = Undefined
                   /\ IsToken(shards'[i].nextShardIterator)
       /\ (pc = "records" /\ pc' = "records") =>
             /\ issued' >= issued
             /\ inflight' \subseteq inflight \cup ((issued + 1)..issued')
             /\ Len(shards') = Len(shards)
       /\ (pc = "records" /\ obs'.emitting) =>
             issued = Len(shards) /\ Cardinality(inflight) = 1
       /\ (pc = "records" /\ budget' = budget /\ inflight' # inflight) =>
             \E i \in inflight :
                LET token == shards[i].nextShardIterator
                    first == Len(Flat(SubSeq(results, 1, i - 1)))
                    k == IF pc' # "records"
                         THEN Len(obs'.batch) - Len(Flat(results)) + 1
                         ELSE IF IsArr(results'[i]) THEN Len(results'[i][2])
                         ELSE -1
                    records == IF pc' = "records" THEN results'[i][2]
                               ELSE SubSeq(obs'.batch, first + 1, first + k)
                IN  /\ k \in 0..Available(token)
                    /\ \A j \in 1..k :
                          /\ records[j] # Undefined
                          /\ records[j][2] = token[2]
                          /\ records[j][3] = token[3] + j - 1
                    /\ \E c \in {Null, Token(token[2], token[3] + k)} :
                          LET after == [shards EXCEPT ![i] =
                                           [shardId |-> shards[i].shardId,
                                            nextShardIterator |-> c]]
                              res == [results EXCEPT ![i] = Arr(records)]
                          IN  /\ c = Null => closed[token[2]]
                              /\ IF pc' = "records"
                                 THEN /\ shards' = after
                                      /\ results' = res
                                      /\ i \notin inflight'
                                 ELSE /\ obs'.batch = Flat(res)
                                      /\ shards' = IF obs'.emitting
                                                   THEN TrimKept(after) ELSE after
      ]_vars

\* C20's case: in the fetch phase a response has brought the records of a
\* closed shard and no continuation token, so that its entry holds them and a
\* null cursor, while the request of another entry is pending
C20_Witness ==
    /\ pc = "records"
    /\ \E i \in 1..Len(shards) : \E j \in inflight :
          /\ i # j
          /\ IsArr(results[i])
          /\ Len(results[i][2]) >= 1
          /\ shards[i].nextShardIterator = Null
          /\ IsToken(shards[j].nextShardIterator)
          /\ results[j] = Undefined

\* C21: the acquisition phase requests an iterator for exactly the entries
\* that lack a cursor: when fetchStreamRecords starts on a table that is not
\* empty, the requests issued are those of the entries taken whose cursor is
\* absent, and a phase without a request is skipped only when no entry lacks
\* one; a response stores the LATEST token of the entry's shard in the entry
\* of its request, whose cursor was absent, and changes no other entry.
C21_AcquiresForAbsentOnly ==
    [][/\ (pc \in {"idle", "describe"} /\ pc' \in {"iterators", "records"}) =>
             IF pc' = "iterators"
             THEN inflight' = {i \in 1..issued' : shards'[i].nextShardIterator = Undefined}
             ELSE \A i \in 1..Len(shards') : IsToken(shards'[i].nextShardIterator)
       /\ (pc = "iterators" /\ budget' = budget /\ inflight' # inflight) =>
             \E i \in inflight :
                /\ shards[i].nextShardIterator = Undefined
                /\ shards' = [shards EXCEPT ![i] =
                                 [shardId |-> shards[i].shardId,
                                  nextShardIterator |->
                                      Token(shards[i].shardId, log[shards[i].shardId] + 1)]]
      ]_vars

\* the index in tbl of its entries whose cursor is null
Nulls(tbl) == {i \in 1..Len(tbl) : tbl[i].nextShardIterator = Null}

\* a trim pass took the table from pre to post and emitted out: post is pre
\* without its entries of null cursor, the others as they were and in their
\* order; out holds one notification, of the removed ids in their order, when
\* an entry was removed and none otherwise
TrimExact(pre, post, out) ==
    LET before(i) == Cardinality({j \in Nulls(pre) : j < i})
    IN  /\ Len(post) = Len(pre) - Cardinality(Nulls(pre))
        /\ \A i \in (1..Len(pre)) \ Nulls(pre) : post[i - before(i)] = pre[i]
        /\ IF Nulls(pre) = {}
           THEN post = pre /\ RemoveEvents(out) = <<>>
           ELSE /\ Len(RemoveEvents(out)) = 1
                /\ Len(RemoveEvents(out)[1][2]) = Cardinality(Nulls(pre))
                /\ \A i \in Nulls(pre) :
                      RemoveEvents(out)[1][2][before(i) + 1] = pre[i].shardId

\* C22: a trim pass removes exactly the entries of null cursor and reports
\* them in one 'remove shards' notification; without such an entry it changes
\* and emits nothing, and so does a second pass after any pass. The pass at the
\* start of fetchStreamShards works on the table as the call finds it, the pass
\* of fetchStreamRecords on the table as its last response leaves it, the
\* entry of that response with a cursor that is null or the one it keeps.
C22_TrimRemovesNull ==
    [][/\ (pc = "idle" /\ pc' = "describe") =>
             /\ obs'.trimmed
             /\ TrimExact(shards, shards', obs'.out)
             /\ TrimExact(shards', shards', <<>>)
       /\ (pc = "records" /\ obs'.emitting) =>
             /\ obs'.trimmed
             /\ \E i \in inflight :
                   \E c \in {Null} \cup {e.nextShardIterator : e \in
                                 {x \in Range(shards') : x.shardId = shards[i].shardId}} :
                      TrimExact([shards EXCEPT ![i].nextShardIterator = c],
                                shards', obs'.out)
             /\ TrimExact(shards', shards', <<>>)
      ]_vars

\* C22's case: the pass at the start of fetchStreamShards has removed an entry
\* of null cursor from a restored table and reported it, and has kept an entry
\* whose cursor is absent
C22_Witness ==
    /\ pc = "describe" /\ obs.trimmed
    /\ Len(RemoveEvents(obs.out)) = 1
    /\ \E i \in 1..Len(shards) : shards[i].nextShardIterator = Undefined
    /\ listed = <<>>

C24_MembershipOnly ==
    [][((pc = "idle" /\ pc' = "describe") \/ pc = "describe") =>
          /\ (pc' = "describe" \/ call = "fetchStreamShards") =>
                /\ inflight' = {} /\ issued' = 0
                /\ RecordEvents(obs'.out) = <<>>
                /\ ~obs'.emitting
          /\ \A i \in 1..Len(shards) :
                IF Has(shards', shards[i].shardId)
                THEN Cursor(shards', shards[i].shardId) = shards[i].nextShardIterator
                ELSE pc = "idle" /\ shards[i].nextShardIterator = Null
          /\ pc = "describe" =>
                /\ Len(shards') >= Len(shards)
                /\ SubSeq(shards', 1, Len(shards)) = shards
      ]_vars

\* C24's case: a fetchStreamShards() call has completed on a table that held
\* an entry with a token, which it keeps with that token, and has added a shard
C24_Witness ==
    /\ pc = "idle" /\ obs.discovered /\ obs.call = "fetchStreamShards"
    /\ \E i, j \in 1..Len(shards) :
          /\ shards[i].shardId \in obs.pre
          /\ IsToken(shards[i].nextShardIterator)
          /\ shards[j].shardId \notin obs.pre
          /\ shards[j].nextShardIterator = Undefined

\* C25: setShardState(s) takes an independent copy of s. The call itself
\* leaves s as it is; from then on no step of a refresh changes s, neither its
\* keys nor the cursor of one of its entries, and no write of the caller to s
\* (a key added or deleted, a cursor written) changes the table. Two trackers
\* restored from the same s meet through s only, so that they are isolated
\* when these two hold.
C25_RestoreCopies ==
    [][/\ SetShardState => snap' = snap
       /\ (pc # "idle" \/ pc' # "idle") =>
             /\ snap'.keys = snap.keys
             /\ \A id \in Range(snap.keys) :
                   snap'.at[id].nextShardIterator = snap.at[id].nextShardIterator
       /\ (pc = "idle" /\ snap' # snap) => shards' = shards
      ]_vars

\* C26: no fetched record is lost by a failing call. When a call ends, by
\* returning or by throwing, every record of a recognized kind it has fetched
\* (the cursor of its shard stands after it) has been emitted as a record
\* notification.
C26_NoFetchedRecordLost ==
    (pc = "idle" /\ (obs.returned \/ obs.threw)) =>
        \A j \in 1..Len(Recognized(obs.batch)) :
            <<Recognized(obs.batch)[j][2], Recognized(obs.batch)[j][3]>> \in emitted

\* C27: every shard id that discovery inserts is reported in a 'new shards'
\* notification, by the call that inserted it or, when that call failed in
\* the middle of its pages, by a later one: once a discovery has completed,
\* the last report naming a shard of the table is 'new shards'.
C27_InsertedAreReported ==
    obs.discovered =>
        \A i \in 1..Len(shards) : reports[shards[i].shardId][2] = "new shards"

\* C28: against a listing that no longer changes, repeated error-free
\* fetchStreamState() calls reach a stable table: from some call on no step
\* emits a 'new shards' or a 'remove shards' notification.
C28_Stabilizes ==
    <>[](NewEvents(obs.out) = <<>> /\ RemoveEvents(obs.out) = <<>>)

\* C29: after a fetchStreamRecords() call that returns without error, every
\* entry left in the table holds a token: none has a null cursor, none an
\* absent one.
C29_TokensAfterReturn ==
    (pc = "idle" /\ obs.returned /\ ~obs.threw) =>
        \A i \in 1..Len(shards) : IsToken(shards[i].nextShardIterator)

\* C29's case: a call has returned after its trim removed an entry whose
\* cursor had become null, and the table still holds an entry
C29_Witness ==
    /\ pc = "idle" /\ obs.returned /\ ~obs.threw /\ obs.emitting
    /\ Len(RemoveEvents(obs.out)) = 1
    /\ shards # <<>>
    /\ \A i \in 1..Len(shards) : IsToken(shards[i].nextShardIterator)

====
